---- MODULE Spec2Model ----
(***************************************************************************)
(* Linkedit reconstruction of DyldExtractorC                               *)
(* (src/DyldExtractor/Converter/LinkeditOptimizer.cpp).                     *)
(*                                                                         *)
(* The state is one extracted image: its load-command region (the bytes     *)
(* behind the mach header, as a sequence of commands with their uint32      *)
(* fields), the LinkeditTracker registry, the members of the                *)
(* LinkeditOptimizer and the position of Converter::optimizeLinkedit in     *)
(* its pass list.  Pointers into the load-command region are byte           *)
(* addresses relative to _commandsStart; pointers into LINKEDIT are byte    *)
(* addresses relative to _linkeditStart.                                    *)
(***************************************************************************)
EXTENDS Integers, Sequences, FiniteSets, TLC

(***************************************************************************)
(* Bounds of the model.                                                    *)
(***************************************************************************)
MaxLocals == 2
MaxExported == 1
MaxImported == 1
MaxIndirect == 2
MaxRecovered == 1
MaxOps == 2
NumberOfImages == 2

(***************************************************************************)
(* Program constants.                                                      *)
(***************************************************************************)
\* INDIRECT_SYMBOL_ABS is 0x40000000.  INDIRECT_SYMBOL_LOCAL is 0x80000000,
\* one more than the largest integer TLC represents; the code only compares
\* entries for equality and uses them as map keys, so it is modelled by the
\* largest representable value.
INDIRECT_SYMBOL_ABS == 1073741824
INDIRECT_SYMBOL_LOCAL == 2147483647

Redacted == "<redacted>"

Widths == {32, 64}

\* sizeof(Macho::Loader::nlist<P>)
NlistSize(w) == IF w = 32 THEN 12 ELSE 16

\* sizeof of the load commands the optimizer touches (mach-o/loader.h)
CmdSize(kind, w) ==
    CASE kind = "LC_SEGMENT" -> IF w = 32 THEN 56 ELSE 72
      [] kind = "LC_DYLD_INFO" -> 48
      [] kind = "LC_SYMTAB" -> 24
      [] kind = "LC_DYSYMTAB" -> 80
      [] OTHER -> 16

\* offsetof(command, field) for the uint32 fields that name LINKEDIT data
FieldOff(kind) ==
    CASE kind = "LC_DYLD_INFO" ->
            [bind_off |-> 16, bind_size |-> 20, weak_bind_off |-> 24,
             weak_bind_size |-> 28, lazy_bind_off |-> 32,
             lazy_bind_size |-> 36, export_off |-> 40, export_size |-> 44]
      [] kind = "LC_SYMTAB" ->
            [symoff |-> 8, nsyms |-> 12, stroff |-> 16, strsize |-> 20]
      [] kind = "LC_DYSYMTAB" ->
            [ilocalsym |-> 8, nlocalsym |-> 12, iextdefsym |-> 16,
             nextdefsym |-> 20, iundefsym |-> 24, nundefsym |-> 28,
             indirectsymoff |-> 56, nindirectsyms |-> 60]
      [] kind = "LC_SEGMENT" ->
            [vmsize |-> 28, filesize |-> 36]     \* not uint32 when P is 64
      [] OTHER -> [dataoff |-> 8, datasize |-> 12]

(***************************************************************************)
(* Pure helpers.                                                           *)
(***************************************************************************)
\* Utils::alignR(value, 8): round up to the next multiple of 8 in place.
AlignR(n) == ((n + 7) \div 8) * 8

RECURSIVE SumSizes(_, _)
SumSizes(cs, n) == IF n = 0 THEN 0 ELSE SumSizes(cs, n - 1) + cs[n].cmdsize

\* Address of command i, relative to _commandsStart.
CmdStart(cs, i) == SumSizes(cs, i - 1)

\* getLoadCommand<false, T>(): the first command of that kind, 0 for nullptr.
CmdIndex(cs, kind) ==
    IF \E i \in 1..Len(cs) : cs[i].kind = kind
    THEN CHOOSE i \in 1..Len(cs) :
            /\ cs[i].kind = kind
            /\ \A j \in 1..(i - 1) : cs[j].kind # kind
    ELSE 0

\* (uint8_t *)cmd + offsetof(cmd, field)
FieldAddr(cs, i, field) == CmdStart(cs, i) + FieldOff(cs[i].kind)[field]

\* The fields that lie at address a of the command region.
FieldsAt(cs, a) ==
    {<<i, fld>> \in (1..Len(cs)) \X
                    {"bind_off", "bind_size", "weak_bind_off", "weak_bind_size",
                     "lazy_bind_off", "lazy_bind_size", "export_off",
                     "export_size", "symoff", "nsyms", "stroff", "strsize",
                     "ilocalsym", "nlocalsym", "iextdefsym", "nextdefsym",
                     "iundefsym", "nundefsym", "indirectsymoff",
                     "nindirectsyms", "vmsize", "filesize", "dataoff",
                     "datasize"} :
        /\ fld \in DOMAIN cs[i].f
        /\ FieldAddr(cs, i, fld) = a}

\* *(uint32_t *)ptr for a pointer into the load-command region; -1 when the
\* address is not that of a modelled field.
ReadU32(cs, a) ==
    IF FieldsAt(cs, a) = {} THEN -1
    ELSE LET p == CHOOSE q \in FieldsAt(cs, a) : TRUE
         IN cs[p[1]].f[p[2]]

\* *(uint32_t *)ptr += delta
AddU32(cs, a, delta) ==
    IF FieldsAt(cs, a) = {} THEN cs
    ELSE LET p == CHOOSE q \in FieldsAt(cs, a) : TRUE
         IN [cs EXCEPT ![p[1]].f[p[2]] = @ + delta]

\* std::map<uint32_t, uint32_t>::operator[]: a missing key reads as 0.
MapGet(m, k) == IF k \in DOMAIN m THEN m[k] ELSE 0

VARIABLES
    width,                  \* pointer width P of the image (32 or 64)
    linkeditOffset,         \* _linkeditOffset: file offset of __LINKEDIT
    headerSpace,            \* _headerSpaceAvailable
    linkeditEnd,            \* _linkeditEnd - _linkeditStart
    oldSyms,                \* nlists at _linkeditFile + symtab.symoff
    oldStrings,             \* strings at _linkeditFile + symtab.stroff
    oldIndirect,            \* uint32s at _linkeditFile + indirectsymoff
    symbolsCache,           \* _dCtx.getSymbolsCache() and its local symbols
    ncmds, sizeofcmds,      \* mach_header fields
    cmds,                   \* the load commands behind the header
    trackingData,           \* LinkeditTracker::trackingData
    pc,                     \* next pass of Converter::optimizeLinkedit
    offset,                 \* the cursor into newLinkedit
    pool, stringsLength,    \* StringPool::_pool, _stringsLength
    symbolsCount,           \* _symbolsCount
    newSymbolEntriesStart,  \* _newSymbolEntriesStart
    redactedSymbolsCount,   \* _redactedSymbolsCount
    newSymbolIndicies,      \* _newSymbolIndicies
    hasRedactedIndirect,    \* _eCtx.hasRedactedIndirect
    newSyms,                \* nlists written at newLinkedit + symbol start
    newIndirect,            \* uint32s written by copyIndirectSymbolTable
    origin,                 \* history: where each entry of newSyms came from
    initial,                \* history: header fields and inputs at start
    opsLeft,                \* tracker calls the downstream passes still make
    lastOp,                 \* history: the last tracker call and its result
    inserted,               \* history: cmdsize of each command inserted
    runsLeft,               \* calls of optimizeLinkedit still to come
    firstRun,               \* history: load commands and pool of the first call
    driver                  \* runAllImages: the cache's images, the program
                            \* arguments, the loop counter and what was done

vars == <<width, linkeditOffset, headerSpace, linkeditEnd, oldSyms, oldStrings,
          oldIndirect, symbolsCache, ncmds, sizeofcmds, cmds, trackingData,
          pc, offset, pool, stringsLength, symbolsCount,
          newSymbolEntriesStart, redactedSymbolsCount, newSymbolIndicies,
          hasRedactedIndirect, newSyms, newIndirect, origin, initial, opsLeft,
          lastOp, inserted, runsLeft, firstRun, driver>>

\* The driver is not part of a run on one image.
NoDriver == [status |-> "none"]

imageVars == <<width, linkeditOffset, headerSpace, linkeditEnd, oldSyms,
               oldStrings, oldIndirect, symbolsCache, initial, runsLeft,
               firstRun, driver>>
headerVars == <<ncmds, sizeofcmds>>
poolVars == <<pool, stringsLength>>
symVars == <<symbolsCount, newSyms, origin>>

(***************************************************************************)
(* The inputs: one image of the cache.                                     *)
(***************************************************************************)
\* Which optional load commands the image has.
Profiles ==
    { {"LC_DYLD_INFO", "LC_SYMTAB", "LC_DYSYMTAB", "LC_FUNCTION_STARTS",
       "LC_DATA_IN_CODE"},
      {"LC_DYLD_EXPORTS_TRIE", "LC_SYMTAB", "LC_DYSYMTAB",
       "LC_FUNCTION_STARTS", "LC_DATA_IN_CODE"},
      {"LC_SYMTAB", "LC_DYSYMTAB"},
      {"LC_DYLD_INFO", "LC_SYMTAB"},
      {"LC_DYLD_INFO", "LC_DYSYMTAB"},
      {"LC_SYMTAB", "LC_DYSYMTAB", "LC_DYLD_EXPORTS_TRIE",
       "LC_CODE_SIGNATURE"} }
DefaultProfile ==
    {"LC_DYLD_INFO", "LC_SYMTAB", "LC_DYSYMTAB", "LC_FUNCTION_STARTS",
     "LC_DATA_IN_CODE"}

\* Sizes of the opcode streams and tables that are copied verbatim.
BlobProfiles ==
    { [bind |-> 0, weak |-> 0, lazy |-> 0, export |-> 0, fs |-> 0, dic |-> 0],
      [bind |-> 5, weak |-> 8, lazy |-> 3, export |-> 7, fs |-> 6, dic |-> 16],
      [bind |-> 0, weak |-> 4, lazy |-> 0, export |-> 9, fs |-> 0, dic |-> 8] }
\* The image the downstream tracker calls are explored on.
TrackerProfile ==
    {"LC_SYMTAB", "LC_DYSYMTAB", "LC_DYLD_EXPORTS_TRIE", "LC_CODE_SIGNATURE"}
DefaultBlobs ==
    [bind |-> 5, weak |-> 8, lazy |-> 3, export |-> 7, fs |-> 6, dic |-> 16]

LinkeditOffsets == {4096}
LinkeditVmsizes == {4096}
HeaderSlacks == {8, 40}
NewCmdSizes == {16, 24}
PayloadSizes == {5, 8}

\* The string table of the cache the old nlists index.
OldNames ==
    <<"", Redacted, "_a", "_a2", "_a3", "_foo", "_foo2", "_foo3", "_bar",
      "_bar2", "_bar3">>
\* The string table of the symbols subcache.
CacheNames == <<"", "_other", "_a", "_r2", "_r3">>

RECURSIVE StrxOf(_, _)
\* Offset of names[k] in the table that holds names[1..] back to back.
StrxOf(names, k) ==
    IF k = 1 THEN 0 ELSE StrxOf(names, k - 1) + Len(names[k - 1]) + 1

StringTable(names) ==
    [x \in {StrxOf(names, k) : k \in 1..Len(names)} |->
        names[CHOOSE k \in 1..Len(names) : StrxOf(names, k) = x]]

Strx(names, s) == StrxOf(names, CHOOSE k \in 1..Len(names) : names[k] = s)

Nlist(strx, type, sect, value) ==
    [n_strx |-> strx, n_type |-> type, n_sect |-> sect, n_desc |-> 0,
     n_value |-> value]

\* nl public locals of which the first nr are named "<redacted>", then ne
\* exported and ni imported symbols: the layout the static linker emits.
OldSymbols(nl, nr, ne, ni) ==
    [k \in 1..(nl + ne + ni) |->
        IF k <= nr THEN Nlist(Strx(OldNames, Redacted), 14, 1, 4096 + 16 * k)
        ELSE IF k <= nl
        THEN Nlist(Strx(OldNames, OldNames[2 + k - nr]), 14, 1, 4096 + 16 * k)
        ELSE IF k <= nl + ne
        THEN Nlist(Strx(OldNames, OldNames[5 + k - nl]), 15, 1, 4096 + 16 * k)
        ELSE Nlist(Strx(OldNames, OldNames[8 + k - nl - ne]), 1, 0, 0)]

\* The values an indirect entry takes in an image with nl locals, ne
\* exported and ni imported symbols: the three sentinels, and one old index
\* of each class (the last local, the first exported, the last imported).
IndirectValues(nl, ne, ni) ==
    {0, INDIRECT_SYMBOL_ABS, INDIRECT_SYMBOL_LOCAL}
    \cup (IF nl > 0 THEN {nl - 1} ELSE {})
    \cup (IF ne > 0 THEN {nl} ELSE {})
    \cup (IF ni > 0 THEN {nl + ne + ni - 1} ELSE {})

\* The tables of up to MaxIndirect entries; the passes treat every entry
\* alone, so the tables are taken in non-decreasing order.
IndirectTables(nl, ne, ni) ==
    UNION {{t \in [1..len -> IndirectValues(nl, ne, ni)] :
                \A i \in 1..(len - 1) : t[i] <= t[i + 1]} :
           len \in 0..MaxIndirect}

\* The symbols subcache: absent, without an entry for the image, or with an
\* entry of k nlists, in the old or the new header layout.
\* __TEXT vmaddr - sharedRegionStart, and the file offset of __TEXT.
ImageKeys == [vm |-> 32768, file |-> 16384]
CacheNlists(k) ==
    [j \in 1..(k + 1) |->
        Nlist(Strx(CacheNames, CacheNames[j + 1]), 14, 1, 8192 + 16 * j)]
SymbolsCaches ==
    {[present |-> FALSE]}
    \cup {[present |-> TRUE, localSymbolsOffset |-> 512, newLayout |-> new,
           entries |-> <<[dylibOffset |-> 4096, nlistStartIndex |-> 0,
                          nlistCount |-> 1]>>,
           nlists |-> CacheNlists(0)] : new \in {TRUE}}
    \cup {[present |-> TRUE, localSymbolsOffset |-> 512, newLayout |-> new,
           entries |-> <<[dylibOffset |-> 4096, nlistStartIndex |-> 0,
                          nlistCount |-> 1],
                         [dylibOffset |-> IF new THEN ImageKeys.vm ELSE ImageKeys.file,
                          nlistStartIndex |-> 1, nlistCount |-> k]>>,
           nlists |-> CacheNlists(k)] :
          new \in BOOLEAN, k \in 1..MaxRecovered}

\* Subcaches that try the scan of the entry table: two entries, each with the
\* image's key of either layout or another image's, the first with one nlist
\* or none.
ScanCaches ==
    {[present |-> TRUE, localSymbolsOffset |-> 512, newLayout |-> new,
      entries |-> <<[dylibOffset |-> d1, nlistStartIndex |-> 0,
                     nlistCount |-> c1],
                    [dylibOffset |-> d2, nlistStartIndex |-> 1,
                     nlistCount |-> 1]>>,
      nlists |-> CacheNlists(1)] :
     new \in BOOLEAN, d1 \in {4096, ImageKeys.vm, ImageKeys.file},
     d2 \in {4096, ImageKeys.vm, ImageKeys.file}, c1 \in {0, 1}}

Command(kind, w, fields) ==
    [kind |-> kind, cmdsize |-> CmdSize(kind, w), f |-> fields]

\* The load commands of an image, in file order.
Commands(w, prof, blob, nl, ne, ni, nind, vmsize) ==
    LET all ==
        <<Command("LC_SEGMENT", w, [vmsize |-> vmsize, filesize |-> vmsize]),
          Command("LC_DYLD_INFO", w,
                  [bind_off |-> 50000, bind_size |-> blob.bind,
                   weak_bind_off |-> 51000, weak_bind_size |-> blob.weak,
                   lazy_bind_off |-> 52000, lazy_bind_size |-> blob.lazy,
                   export_off |-> 53000, export_size |-> blob.export]),
          Command("LC_SYMTAB", w,
                  [symoff |-> 20000, nsyms |-> nl + ne + ni,
                   stroff |-> 30000, strsize |-> 64]),
          Command("LC_DYSYMTAB", w,
                  [ilocalsym |-> 0, nlocalsym |-> nl,
                   iextdefsym |-> nl, nextdefsym |-> ne,
                   iundefsym |-> nl + ne, nundefsym |-> ni,
                   indirectsymoff |-> 40000, nindirectsyms |-> nind]),
          Command("LC_FUNCTION_STARTS", w,
                  [dataoff |-> 60000, datasize |-> blob.fs]),
          Command("LC_DATA_IN_CODE", w,
                  [dataoff |-> 61000, datasize |-> blob.dic]),
          Command("LC_DYLD_EXPORTS_TRIE", w,
                  [dataoff |-> 62000, datasize |-> blob.export]),
          Command("LC_CODE_SIGNATURE", w,
                  [dataoff |-> 63000, datasize |-> 32])>>
    IN SelectSeq(all, LAMBDA c : c.kind = "LC_SEGMENT" \/ c.kind \in prof)

RECURSIVE OldLinkeditSize(_, _, _)
\* The bytes of __LINKEDIT the first n load commands describe, every region
\* padded to 8: the least vmsize the segment of such an image has.
OldLinkeditSize(cs, n, w) ==
    IF n = 0 THEN 0
    ELSE LET c == cs[n]
             own ==
               CASE c.kind = "LC_DYLD_INFO" ->
                       AlignR(c.f.bind_size) + AlignR(c.f.weak_bind_size)
                       + AlignR(c.f.lazy_bind_size) + AlignR(c.f.export_size)
                 [] c.kind = "LC_SYMTAB" ->
                       AlignR(c.f.nsyms * NlistSize(w)) + AlignR(c.f.strsize)
                 [] c.kind = "LC_DYSYMTAB" -> AlignR(c.f.nindirectsyms * 4)
                 [] c.kind = "LC_SEGMENT" -> 0
                 [] OTHER -> AlignR(c.f.datasize)
         IN own + OldLinkeditSize(cs, n - 1, w)

(***************************************************************************)
(* LinkeditTracker                                                         *)
(***************************************************************************)
LinkeditData(off, data, size) ==
    [offset |-> off, data |-> data, dataSize |-> size]

RECURSIVE LowerBound(_, _, _, _)
\* std::lower_bound over [first, first + count) with a.data < b.data;
\* positions are 0-based as in the iterator arithmetic.
LowerBound(td, d, first, count) ==
    IF count <= 0 THEN first
    ELSE LET step == count \div 2
             it == first + step
         IN IF td[it + 1].data < d.data
            THEN LowerBound(td, d, it + 1, count - (step + 1))
            ELSE LowerBound(td, d, first, step)

\* A registry that takes every new region at its end.
TrackDataAtEnd(td, d) == Append(td, d)

\* LinkeditTracker::trackData
TrackData(td, d) ==
    LET it == LowerBound(td, d, 0, Len(td))
    IN SubSeq(td, 1, it) \o <<d>> \o SubSeq(td, it + 1, Len(td))

(***************************************************************************)
(* StringPool                                                              *)
(***************************************************************************)
\* An index that is taken fresh for every call.
AddStringIndexFresh(p, len, s) == len

\* The index addString returns.
AddStringIndex(p, len, s) == IF s \in DOMAIN p THEN p[s] ELSE len
\* _pool after addString.
AddStringPool(p, len, s) == IF s \in DOMAIN p THEN p ELSE p @@ (s :> len)
\* A length that leaves no room for the terminating NUL.
AddStringLengthNoNul(p, len, s) == IF s \in DOMAIN p THEN len ELSE len + Len(s)

\* _stringsLength after addString.
AddStringLength(p, len, s) == IF s \in DOMAIN p THEN len ELSE len + Len(s) + 1

\* StringPool::writeStrings: the returned size.
WriteStringsSize(p) ==
    LET last == CHOOSE s \in DOMAIN p : \A t \in DOMAIN p : p[t] <= p[s]
    IN p[last] + Len(last) + 1

\* StringPool::writeStrings: the string that starts at each offset of the
\* written pool (each memcpy'ed to its index over calloc'ed bytes).
WrittenStrings(p) ==
    [x \in {p[s] : s \in DOMAIN p} |-> CHOOSE s \in DOMAIN p : p[s] = x]

RECURSIVE CopyEntries(_, _, _, _)
\* The body shared by the four symbol loops: memcpy the nlist, intern its
\* name, store the pool index in n_strx, advance the head.
CopyEntries(entries, names, p, len) ==
    IF entries = <<>> THEN [pool |-> p, length |-> len, out |-> <<>>]
    ELSE LET e == Head(entries)
             s == names[e.n_strx]
             rest == CopyEntries(Tail(entries), names,
                                 AddStringPool(p, len, s),
                                 AddStringLength(p, len, s))
         IN [rest EXCEPT
                !.out = <<[e EXCEPT !.n_strx = AddStringIndex(p, len, s)]>>
                        \o @]

\* History of a copied run of symbols: class, original name and old index
\* (olds[k], or -1 for a symbol that had no index in the old table).
Origins(class, entries, names, olds) ==
    [k \in 1..Len(entries) |->
        [class |-> class, name |-> names[entries[k].n_strx],
         old |-> IF k \in DOMAIN olds THEN olds[k] ELSE -1]]

(***************************************************************************)
(* Init: the state when optimizeLinkedit has built the tracker and the      *)
(* optimizer and is about to run the first pass.                            *)
(***************************************************************************)
\* Which combinations of the inputs are explored.
\* The image whose __LINKEDIT holds nothing but a string table and an
\* indirect table of zero entries.
BareProfile == {"LC_SYMTAB", "LC_DYSYMTAB"}
NoBlobs == [bind |-> 0, weak |-> 0, lazy |-> 0, export |-> 0, fs |-> 0,
            dic |-> 0]

Admissible(prof, blob, nl, nr, ne, ni, ind, sc, budget, tight, runs) ==
    /\ runs > 0 =>
            /\ budget = 0
            /\ ~tight
            /\ prof = DefaultProfile
            /\ blob = DefaultBlobs
            /\ nl <= 1
            /\ nr = 0
            /\ Len(ind) <= 1
    /\ sc \notin SymbolsCaches =>
            /\ budget = 0
            /\ ~tight
            /\ runs = 0
            /\ prof = DefaultProfile
            /\ blob = DefaultBlobs
            /\ nl = 0
            /\ ne = 0
            /\ ni = 0
            /\ ind = <<>>
    /\ (budget = 0 /\ ~tight) =>
            /\ prof # TrackerProfile
            /\ (prof # DefaultProfile \/ blob # DefaultBlobs) =>
                    /\ nl <= 1
                    /\ Len(ind) <= 1
                    /\ ~sc.present
            /\ sc.present =>
                    /\ ne <= 1
                    /\ ni <= 1
                    /\ Len(ind) <= 1
    /\ (budget > 0 /\ ~tight) =>
            /\ prof = TrackerProfile
            /\ blob = DefaultBlobs
            /\ nl = 0
            /\ ne = 1
            /\ ind = <<>>
            /\ ~sc.present
    /\ tight =>
            /\ prof = BareProfile
            /\ blob = NoBlobs
            /\ nl = 0
            /\ ne = 0
            /\ ni = 0
            /\ \A i \in DOMAIN ind : ind[i] = 0
            /\ budget > 0 => ~sc.present

Init ==
    \E w \in Widths, prof \in Profiles, blob \in BlobProfiles,
       nl \in 0..MaxLocals, ne \in 0..MaxExported, ni \in 0..MaxImported,
       sc \in SymbolsCaches \cup ScanCaches, budget \in {0, MaxOps},
       lo \in LinkeditOffsets, roomy \in LinkeditVmsizes,
       slack \in HeaderSlacks, tight \in BOOLEAN, runs \in {0, 1} :
      \E nr \in 0..nl, ind \in IndirectTables(nl, ne, ni) :
       LET described == Commands(w, prof, blob, nl, ne, ni, Len(ind), roomy)
           vmsize == IF tight
                     THEN OldLinkeditSize(described, Len(described), w)
                     ELSE roomy
       IN
        /\ Admissible(prof, blob, nl, nr, ne, ni, ind, sc, budget, tight,
                      runs)
        /\ (budget = 0 => slack = 8)
        /\ ((tight /\ budget > 0) => slack = 40)
        /\ width = w
        /\ linkeditOffset = lo
        /\ linkeditEnd = vmsize
        /\ oldSyms = OldSymbols(nl, nr, ne, ni)
        /\ oldStrings = StringTable(OldNames)
        /\ oldIndirect = ind
        /\ symbolsCache = sc
        /\ cmds = Commands(w, prof, blob, nl, ne, ni, Len(ind), vmsize)
        /\ ncmds = Len(cmds)
        /\ sizeofcmds = SumSizes(cmds, Len(cmds))
        /\ headerSpace = sizeofcmds + slack
        /\ trackingData = <<>>
        /\ pc = "copyBindingInfo"
        /\ offset = 0
        /\ pool = ("" :> 0)
        /\ stringsLength = 1
        /\ symbolsCount = 0
        /\ newSymbolEntriesStart = 0
        /\ redactedSymbolsCount = 0
        /\ newSymbolIndicies = <<>>
        /\ hasRedactedIndirect = FALSE
        /\ newSyms = <<>>
        /\ newIndirect = <<>>
        /\ origin = <<>>
        /\ initial = [ncmds |-> ncmds, sizeofcmds |-> sizeofcmds,
                      vmsize |-> vmsize, nl |-> nl, nr |-> nr, ne |-> ne,
                      ni |-> ni]
        /\ opsLeft = budget
        /\ lastOp = [op |-> "none"]
        /\ inserted = <<>>
        /\ runsLeft = runs
        /\ firstRun = [ran |-> FALSE]
        /\ driver = NoDriver

(***************************************************************************)
(* LinkeditOptimizer: the passes of Converter::optimizeLinkedit             *)
(***************************************************************************)
\* The members the constructor looks up; 0 stands for nullptr.
DyldInfo == CmdIndex(cmds, "LC_DYLD_INFO")
SymTab == CmdIndex(cmds, "LC_SYMTAB")
DySymTab == CmdIndex(cmds, "LC_DYSYMTAB")
ExportTrieCmd == CmdIndex(cmds, "LC_DYLD_EXPORTS_TRIE")
LinkeditSeg == CmdIndex(cmds, "LC_SEGMENT")

trackerOpVars == <<opsLeft, lastOp, inserted>>
symStateVars == <<pool, stringsLength, symbolsCount, newSymbolEntriesStart,
                  redactedSymbolsCount, newSymbolIndicies,
                  hasRedactedIndirect, newSyms, newIndirect, origin>>

\* The value a pass stores in the load command's offset field.
NewFileOffset(off) == linkeditOffset + off

\* The body the five verbatim passes share: when the command is present and
\* its size is not 0, copy, pad the size to 8, track, set the offset field,
\* advance the cursor.
VerbatimCopy(i, offField, sizeField) ==
    IF i = 0 \/ cmds[i].f[sizeField] = 0
    THEN UNCHANGED <<cmds, trackingData, offset>>
    ELSE LET size == AlignR(cmds[i].f[sizeField])
         IN /\ trackingData' =
                   TrackData(trackingData,
                             LinkeditData(FieldAddr(cmds, i, offField),
                                          offset, size))
            /\ cmds' = [cmds EXCEPT ![i].f[offField] = NewFileOffset(offset)]
            /\ offset' = offset + size

copyBindingInfo ==
    /\ pc = "copyBindingInfo"
    /\ VerbatimCopy(DyldInfo, "bind_off", "bind_size")
    /\ pc' = "copyWeakBindingInfo"
    /\ UNCHANGED <<imageVars, headerVars, symStateVars, trackerOpVars>>

copyWeakBindingInfo ==
    /\ pc = "copyWeakBindingInfo"
    /\ VerbatimCopy(DyldInfo, "weak_bind_off", "weak_bind_size")
    /\ pc' = "copyLazyBindingInfo"
    /\ UNCHANGED <<imageVars, headerVars, symStateVars, trackerOpVars>>

\* optimizeLinkedit calls startSymbolEntries right after this pass.
copyLazyBindingInfo ==
    /\ pc = "copyLazyBindingInfo"
    /\ VerbatimCopy(DyldInfo, "lazy_bind_off", "lazy_bind_size")
    /\ pc' = "startSymbolEntries"
    /\ UNCHANGED <<imageVars, headerVars, symStateVars, trackerOpVars>>

startSymbolEntries ==
    /\ pc = "startSymbolEntries"
    /\ newSymbolEntriesStart' = offset
    /\ pc' = "searchRedactedSymbol"
    /\ UNCHANGED <<imageVars, headerVars, cmds, trackingData, offset, pool,
                   stringsLength, symbolsCount, redactedSymbolsCount,
                   newSymbolIndicies, hasRedactedIndirect, newSyms,
                   newIndirect, origin, trackerOpVars>>

\* A read through a null command pointer ends the process.
Crash ==
    /\ pc' = "crashed"
    /\ UNCHANGED <<imageVars, headerVars, cmds, trackingData, offset,
                   symStateVars, trackerOpVars>>

\* The number of zero entries the probe counts.
ZeroEntries(table, n) == Cardinality({i \in 1..n : table[i] = 0})

\* A placeholder entry that leaves n_type zero.
PlaceholderUntyped(strIndex) ==
    [n_strx |-> strIndex, n_type |-> 0, n_sect |-> 0, n_desc |-> 0,
     n_value |-> 0]

\* The placeholder nlist: calloc'ed bytes with n_strx and n_type stored.
Placeholder(strIndex) ==
    [n_strx |-> strIndex, n_type |-> 1, n_sect |-> 0, n_desc |-> 0,
     n_value |-> 0]

searchRedactedSymbol ==
    /\ pc = "searchRedactedSymbol"
    /\ IF DySymTab = 0 THEN Crash
       ELSE LET count == redactedSymbolsCount
                         + ZeroEntries(oldIndirect,
                                       cmds[DySymTab].f.nindirectsyms)
            IN /\ redactedSymbolsCount' = count
               /\ IF count # 0
                  THEN /\ pool' = AddStringPool(pool, stringsLength, Redacted)
                       /\ stringsLength' =
                              AddStringLength(pool, stringsLength, Redacted)
                       /\ symbolsCount' = symbolsCount + 1
                       /\ newSyms' =
                              Append(newSyms,
                                     Placeholder(AddStringIndex(
                                         pool, stringsLength, Redacted)))
                       /\ origin' = Append(origin,
                                           [class |-> "placeholder",
                                            name |-> Redacted, old |-> -1])
                       /\ offset' = offset + NlistSize(width)
                       /\ hasRedactedIndirect' = TRUE
                  ELSE UNCHANGED <<pool, stringsLength, symbolsCount, newSyms,
                                   origin, offset, hasRedactedIndirect>>
               /\ pc' = "copyLocalSymbols"
               /\ UNCHANGED <<imageVars, headerVars, cmds, trackingData,
                              newSymbolEntriesStart, newSymbolIndicies,
                              newIndirect, trackerOpVars>>

\* A scan that keeps the last entry that matches.
FindLastLocalSymbolEntries(sc) ==
    LET key == IF sc.newLayout THEN ImageKeys.vm ELSE ImageKeys.file
        hits == {i \in 1..Len(sc.entries) : sc.entries[i].dylibOffset = key}
    IN IF hits = {} THEN <<>>
       ELSE LET e == sc.entries[CHOOSE i \in hits : \A j \in hits : i >= j]
            IN SubSeq(sc.nlists, e.nlistStartIndex + 1,
                      e.nlistStartIndex + e.nlistCount)

\* _findLocalSymbolEntries: the nlist range of the first entry whose
\* dylibOffset is the image's key, or nothing.
FindLocalSymbolEntries(sc) ==
    LET key == IF sc.newLayout THEN ImageKeys.vm ELSE ImageKeys.file
        hits == {i \in 1..Len(sc.entries) : sc.entries[i].dylibOffset = key}
    IN IF hits = {} THEN <<>>
       ELSE LET e == sc.entries[CHOOSE i \in hits : \A j \in hits : i <= j]
            IN SubSeq(sc.nlists, e.nlistStartIndex + 1,
                      e.nlistStartIndex + e.nlistCount)

\* The old nlists with index first .. first + count - 1.
OldRange(first, count) == SubSeq(oldSyms, first + 1, first + count)

\* The old indices first .. first + count - 1.
IndexRange(first, count) == [k \in 1..count |-> first + k - 1]

\* _copyPublicLocalSymbols: the old indices of the entries it copies.
PublicLocalIndices ==
    IF DySymTab = 0 \/ cmds[DySymTab].f.nlocalsym = 0 THEN <<>>
    ELSE SelectSeq(IndexRange(cmds[DySymTab].f.ilocalsym,
                              cmds[DySymTab].f.nlocalsym),
                   LAMBDA i : oldStrings[oldSyms[i + 1].n_strx] # Redacted)

\* _copyPublicLocalSymbols: the entries it copies.
PublicLocals ==
    [k \in 1..Len(PublicLocalIndices) |-> oldSyms[PublicLocalIndices[k] + 1]]

\* _copyRedactedLocalSymbols: the entries it copies.
RedactedLocals ==
    IF ~symbolsCache.present \/ symbolsCache.localSymbolsOffset = 0 THEN <<>>
    ELSE FindLocalSymbolEntries(symbolsCache)

\* Whether copyLocalSymbols stores the new ilocalsym / nlocalsym.
UpdatesLocalRange(newSymsCount) == newSymsCount # 0 /\ DySymTab # 0

copyLocalSymbols ==
    /\ pc = "copyLocalSymbols"
    /\ IF DySymTab # 0 /\ cmds[DySymTab].f.nlocalsym # 0 /\ SymTab = 0
       THEN Crash
       ELSE LET pub == CopyEntries(PublicLocals, oldStrings, pool,
                                   stringsLength)
                red == CopyEntries(RedactedLocals, StringTable(CacheNames),
                                   pub.pool, pub.length)
                newSymsCount == Len(pub.out) + Len(red.out)
            IN /\ pool' = red.pool
               /\ stringsLength' = red.length
               /\ newSyms' = newSyms \o pub.out \o red.out
               /\ origin' = origin
                    \o Origins("local", PublicLocals, oldStrings,
                               PublicLocalIndices)
                    \o Origins("redacted", RedactedLocals,
                               StringTable(CacheNames), <<>>)
               /\ symbolsCount' = symbolsCount + newSymsCount
               /\ offset' = offset + NlistSize(width) * newSymsCount
               /\ cmds' = IF UpdatesLocalRange(newSymsCount)
                          THEN [cmds EXCEPT
                                  ![DySymTab].f.ilocalsym = symbolsCount,
                                  ![DySymTab].f.nlocalsym = newSymsCount]
                          ELSE cmds
               /\ pc' = "copyExportedSymbols"
               /\ UNCHANGED <<imageVars, headerVars, trackingData,
                              newSymbolEntriesStart, redactedSymbolsCount,
                              newSymbolIndicies, hasRedactedIndirect,
                              newIndirect, trackerOpVars>>

\* _newSymbolIndicies[symIndex] = _symbolsCount for a run of count symbols
\* that starts at old index first and new index base.
Remapped(m, first, count, base) ==
    [k \in DOMAIN m \cup (first..(first + count - 1)) |->
        IF k >= first /\ k < first + count THEN base + (k - first) ELSE m[k]]

\* The loop copyExportedSymbols and copyImportedSymbols share.
CopyIndexedSymbols(class, startField, countField, next) ==
    IF DySymTab = 0
    THEN /\ pc' = next
         /\ UNCHANGED <<imageVars, headerVars, cmds, trackingData, offset,
                        symStateVars, trackerOpVars>>
    ELSE IF SymTab = 0 THEN Crash
    ELSE LET symsStart == cmds[DySymTab].f[startField]
             count == cmds[DySymTab].f[countField]
             src == OldRange(symsStart, count)
             res == CopyEntries(src, oldStrings, pool, stringsLength)
         IN /\ pool' = res.pool
            /\ stringsLength' = res.length
            /\ newSyms' = newSyms \o res.out
            /\ origin' = origin \o Origins(class, src, oldStrings,
                                            IndexRange(symsStart, count))
            /\ newSymbolIndicies' =
                   Remapped(newSymbolIndicies, symsStart, count, symbolsCount)
            /\ symbolsCount' = symbolsCount + count
            /\ cmds' = IF count # 0
                       THEN [cmds EXCEPT
                               ![DySymTab].f[startField] = symbolsCount,
                               ![DySymTab].f[countField] = count]
                       ELSE cmds
            /\ offset' = offset + NlistSize(width) * count
            /\ pc' = next
            /\ UNCHANGED <<imageVars, headerVars, trackingData,
                           newSymbolEntriesStart, redactedSymbolsCount,
                           hasRedactedIndirect, newIndirect, trackerOpVars>>

copyExportedSymbols ==
    /\ pc = "copyExportedSymbols"
    /\ CopyIndexedSymbols("exported", "iextdefsym", "nextdefsym",
                          "copyImportedSymbols")

copyImportedSymbols ==
    /\ pc = "copyImportedSymbols"
    /\ CopyIndexedSymbols("imported", "iundefsym", "nundefsym",
                          "endSymbolEntries")

\* The cursor after endSymbolEntries has reserved the tail slots.
CursorAfterSymbols == offset + NlistSize(width) * redactedSymbolsCount

\* The size endSymbolEntries tracks for the symbol entries.
SymEntrySize == AlignR(CursorAfterSymbols - newSymbolEntriesStart)

\* A symbol count that includes the reserved tail slots.
NewNsymsWithReserved == symbolsCount + redactedSymbolsCount

\* The count endSymbolEntries stores in symtab.nsyms.
NewNsyms == symbolsCount

endSymbolEntries ==
    /\ pc = "endSymbolEntries"
    /\ IF SymTab = 0
       THEN UNCHANGED <<offset, trackingData, cmds>>
       ELSE /\ offset' = CursorAfterSymbols
            /\ trackingData' =
                   TrackData(trackingData,
                             LinkeditData(FieldAddr(cmds, SymTab, "symoff"),
                                          newSymbolEntriesStart,
                                          SymEntrySize))
            /\ cmds' = [cmds EXCEPT
                          ![SymTab].f.symoff =
                              NewFileOffset(newSymbolEntriesStart),
                          ![SymTab].f.nsyms = NewNsyms]
    /\ pc' = "copyFunctionStarts"
    /\ UNCHANGED <<imageVars, headerVars, symStateVars, trackerOpVars>>

copyFunctionStarts ==
    /\ pc = "copyFunctionStarts"
    /\ VerbatimCopy(CmdIndex(cmds, "LC_FUNCTION_STARTS"), "dataoff",
                    "datasize")
    /\ pc' = "copyDataInCode"
    /\ UNCHANGED <<imageVars, headerVars, symStateVars, trackerOpVars>>

copyDataInCode ==
    /\ pc = "copyDataInCode"
    /\ VerbatimCopy(CmdIndex(cmds, "LC_DATA_IN_CODE"), "dataoff", "datasize")
    /\ pc' = "copyIndirectSymbolTable"
    /\ UNCHANGED <<imageVars, headerVars, symStateVars, trackerOpVars>>

\* The value the loop leaves in newEntries[entryIndex]: the store of the
\* special-case branch is followed, in every case, by the store of the
\* remap lookup.
NewIndirectEntry(e) ==
    LET copied == IF e = INDIRECT_SYMBOL_ABS \/ e = INDIRECT_SYMBOL_LOCAL
                     \/ e = 0
                  THEN e ELSE 0
    IN MapGet(newSymbolIndicies, e)

copyIndirectSymbolTable ==
    /\ pc = "copyIndirectSymbolTable"
    /\ IF DySymTab = 0
       THEN UNCHANGED <<newIndirect, trackingData, cmds, offset>>
       ELSE LET n == cmds[DySymTab].f.nindirectsyms
                size == AlignR(n * 4)
            IN /\ newIndirect' =
                      [i \in 1..n |-> NewIndirectEntry(oldIndirect[i])]
               /\ trackingData' =
                      TrackData(trackingData,
                                LinkeditData(FieldAddr(cmds, DySymTab,
                                                       "indirectsymoff"),
                                             offset, size))
               /\ cmds' = [cmds EXCEPT
                             ![DySymTab].f.indirectsymoff =
                                 NewFileOffset(offset)]
               /\ offset' = offset + size
    /\ pc' = "copyStringPool"
    /\ UNCHANGED <<imageVars, headerVars, pool, stringsLength, symbolsCount,
                   newSymbolEntriesStart, redactedSymbolsCount,
                   newSymbolIndicies, hasRedactedIndirect, newSyms, origin,
                   trackerOpVars>>

copyStringPool ==
    /\ pc = "copyStringPool"
    /\ IF SymTab = 0 THEN Crash
       ELSE LET size == WriteStringsSize(pool)
            IN /\ cmds' = [cmds EXCEPT
                             ![SymTab].f.stroff = NewFileOffset(offset),
                             ![SymTab].f.strsize = size]
               /\ trackingData' =
                      TrackData(trackingData,
                                LinkeditData(FieldAddr(cmds, SymTab, "stroff"),
                                             offset, AlignR(size)))
               /\ offset' = offset + AlignR(size)
               /\ pc' = "updateLoadCommands"
               /\ UNCHANGED <<imageVars, headerVars, symStateVars,
                              trackerOpVars>>

\* A segment size measured from the start of the file.
NewSegmentSizeFromFile == linkeditOffset + offset

\* The sizes updateLoadCommands stores in the __LINKEDIT segment command.
NewSegmentSize == offset

\* memcpy(oldLinkedit, newLinkedit, offset) and updateLoadCommands.
updateLoadCommands ==
    /\ pc = "updateLoadCommands"
    /\ cmds' = [cmds EXCEPT ![LinkeditSeg].f.vmsize = NewSegmentSize,
                            ![LinkeditSeg].f.filesize = NewSegmentSize]
    /\ pc' = "done"
    /\ UNCHANGED <<imageVars, headerVars, trackingData, offset, symStateVars,
                   trackerOpVars>>

\* The zeroed nlists endSymbolEntries leaves room for behind the copies.
ReservedSlots == [k \in 1..redactedSymbolsCount |-> Nlist(0, 0, 0, 0)]

\* Converter::optimizeLinkedit called again on the image it has rebuilt: a
\* new tracker and a new optimizer over the load commands and the LINKEDIT
\* bytes the first call left.
optimizeLinkeditAgain ==
    /\ pc = "done"
    /\ runsLeft > 0
    /\ runsLeft' = runsLeft - 1
    /\ firstRun' = [ran |-> TRUE, cmds |-> cmds, pool |-> pool]
    /\ oldSyms' = newSyms \o ReservedSlots
    /\ oldStrings' = WrittenStrings(pool)
    /\ oldIndirect' = newIndirect
    /\ linkeditEnd' = cmds[LinkeditSeg].f.vmsize
    /\ trackingData' = <<>>
    /\ pc' = "copyBindingInfo"
    /\ offset' = 0
    /\ pool' = ("" :> 0)
    /\ stringsLength' = 1
    /\ symbolsCount' = 0
    /\ newSymbolEntriesStart' = 0
    /\ redactedSymbolsCount' = 0
    /\ newSymbolIndicies' = <<>>
    /\ newSyms' = <<>>
    /\ newIndirect' = <<>>
    /\ origin' = <<>>
    /\ UNCHANGED <<width, linkeditOffset, headerSpace, symbolsCache, initial,
                   driver, headerVars, cmds, hasRedactedIndirect,
                   trackerOpVars>>

(***************************************************************************)
(* The tracker calls of the passes that run after optimizeLinkedit.         *)
(***************************************************************************)
\* A header-space test that refuses a command filling the space exactly.
HasHeaderSpaceStrict(cmdsize) == ~(sizeofcmds + cmdsize >= headerSpace)

\* The check that opens insertLoadCommand.
HasHeaderSpace(cmdsize) == ~(sizeofcmds + cmdsize > headerSpace)

\* (uint8_t *)after + after->cmdsize
LoadCommandShiftStart(after) == CmdStart(cmds, after) + cmds[after].cmdsize

\* A shift that advances every tracking pointer.
ShiftedOffsetsAll(td, shiftStart, shiftDelta) ==
    [i \in 1..Len(td) |-> [td[i] EXCEPT !.offset = @ + shiftDelta]]

\* The tracking pointers after the load commands were moved.
ShiftedOffsets(td, shiftStart, shiftDelta) ==
    [i \in 1..Len(td) |->
        IF td[i].offset >= shiftStart
        THEN [td[i] EXCEPT !.offset = @ + shiftDelta]
        ELSE td[i]]

insertLoadCommand(after, lc) ==
    /\ pc = "done"
    /\ opsLeft > 0
    /\ opsLeft' = opsLeft - 1
    /\ IF ~HasHeaderSpace(lc.cmdsize)
       THEN /\ lastOp' = [op |-> "insertLoadCommand", ret |-> FALSE,
                          shiftStart |-> 0, shiftDelta |-> lc.cmdsize]
            /\ UNCHANGED <<cmds, trackingData, ncmds, sizeofcmds, inserted>>
       ELSE /\ cmds' = SubSeq(cmds, 1, after) \o <<lc>>
                       \o SubSeq(cmds, after + 1, Len(cmds))
            /\ trackingData' =
                   ShiftedOffsets(trackingData, LoadCommandShiftStart(after),
                                  lc.cmdsize)
            /\ ncmds' = ncmds + 1
            /\ sizeofcmds' = sizeofcmds + lc.cmdsize
            /\ inserted' = Append(inserted, lc.cmdsize)
            /\ lastOp' = [op |-> "insertLoadCommand", ret |-> TRUE,
                          shiftStart |-> LoadCommandShiftStart(after),
                          shiftDelta |-> lc.cmdsize]
    /\ UNCHANGED <<imageVars, pc, offset, symStateVars>>

\* The shift insertLinkeditData computes for a payload.
LinkeditShiftDelta(dataSize) == dataSize + (8 - (dataSize % 8))

\* The end of the last tracked region, or the start of LINKEDIT.
LastDataEnd(td) ==
    IF Len(td) # 0 THEN td[Len(td)].data + td[Len(td)].dataSize ELSE 0

RECURSIVE ShiftFields(_, _, _, _, _)
\* *(uint32_t *)trackedData.offset += shiftDelta for the regions at or
\* beyond shiftStart, in registry order.
ShiftFields(cs, td, n, shiftStart, shiftDelta) ==
    IF n = 0 THEN cs
    ELSE LET before == ShiftFields(cs, td, n - 1, shiftStart, shiftDelta)
         IN IF td[n].data >= shiftStart
            THEN AddU32(before, td[n].offset, shiftDelta)
            ELSE before

ShiftedData(td, shiftStart, shiftDelta) ==
    [i \in 1..Len(td) |->
        IF td[i].data >= shiftStart
        THEN [td[i] EXCEPT !.data = @ + shiftDelta]
        ELSE td[i]]

\* after is 0 for std::nullopt, else the position of a tracked region.
insertLinkeditData(after, data) ==
    /\ pc = "done"
    /\ opsLeft > 0
    /\ opsLeft' = opsLeft - 1
    /\ LET shiftDelta == LinkeditShiftDelta(data.dataSize)
           shiftStart == IF after # 0
                         THEN trackingData[after].data
                              + trackingData[after].dataSize
                         ELSE 0
       IN IF LastDataEnd(trackingData) + shiftDelta > linkeditEnd
          THEN /\ lastOp' = [op |-> "insertLinkeditData", ret |-> FALSE,
                             shiftStart |-> shiftStart,
                             shiftDelta |-> shiftDelta,
                             dataSize |-> data.dataSize]
               /\ UNCHANGED <<cmds, trackingData>>
          ELSE /\ cmds' = ShiftFields(cmds, trackingData, Len(trackingData),
                                      shiftStart, shiftDelta)
               /\ trackingData' =
                      TrackData(ShiftedData(trackingData, shiftStart,
                                            shiftDelta),
                                LinkeditData(data.offset, shiftStart,
                                             shiftDelta))
               /\ lastOp' = [op |-> "insertLinkeditData", ret |-> TRUE,
                             shiftStart |-> shiftStart,
                             shiftDelta |-> shiftDelta,
                             dataSize |-> data.dataSize]
    /\ UNCHANGED <<imageVars, headerVars, pc, offset, symStateVars, inserted>>

\* The load commands a downstream pass inserts.
NewCommands ==
    {[kind |-> "LC_LINKEDIT_DATA", cmdsize |-> size,
      f |-> [dataoff |-> off, datasize |-> 0]] :
     size \in NewCmdSizes, off \in {0}}

\* The offset fields a downstream pass can hand to insertLinkeditData: the
\* dataoff of a linkedit_data_command that names no tracked region yet.
FreeOffsetFields ==
    {FieldAddr(cmds, i, "dataoff") :
        i \in {j \in 1..Len(cmds) :
                 cmds[j].kind \in {"LC_LINKEDIT_DATA", "LC_CODE_SIGNATURE",
                                   "LC_DYLD_EXPORTS_TRIE"}}}
    \ {trackingData[i].offset : i \in 1..Len(trackingData)}

Next ==
    \/ copyBindingInfo
    \/ copyWeakBindingInfo
    \/ copyLazyBindingInfo
    \/ startSymbolEntries
    \/ searchRedactedSymbol
    \/ copyLocalSymbols
    \/ copyExportedSymbols
    \/ copyImportedSymbols
    \/ endSymbolEntries
    \/ copyFunctionStarts
    \/ copyDataInCode
    \/ copyIndirectSymbolTable
    \/ copyStringPool
    \/ updateLoadCommands
    \/ optimizeLinkeditAgain
    \/ \E after \in 1..Len(cmds), lc \in NewCommands :
          insertLoadCommand(after, lc)
    \/ \E after \in 0..Len(trackingData), off \in FreeOffsetFields,
          size \in PayloadSizes :
          insertLinkeditData(after, [offset |-> off, dataSize |-> size])

Spec == Init /\ [][Next]_vars

(***************************************************************************)
(* StringPool on its own: the constructor, then any sequence of addString   *)
(* calls.                                                                   *)
(***************************************************************************)
PoolStrings == {"", "_a", "_ab", "_b", Redacted}

PoolInit ==
    /\ width = 64
    /\ linkeditOffset = 0
    /\ headerSpace = 0
    /\ linkeditEnd = 0
    /\ oldSyms = <<>>
    /\ oldStrings = <<>>
    /\ oldIndirect = <<>>
    /\ symbolsCache = [present |-> FALSE]
    /\ ncmds = 0
    /\ sizeofcmds = 0
    /\ cmds = <<>>
    /\ trackingData = <<>>
    /\ pc = "StringPool"
    /\ offset = 0
    /\ pool = <<>>
    /\ stringsLength = 0
    /\ symbolsCount = 0
    /\ newSymbolEntriesStart = 0
    /\ redactedSymbolsCount = 0
    /\ newSymbolIndicies = <<>>
    /\ hasRedactedIndirect = FALSE
    /\ newSyms = <<>>
    /\ newIndirect = <<>>
    /\ origin = <<>>
    /\ initial = [ncmds |-> 0, sizeofcmds |-> 0, vmsize |-> 0, nl |-> 0,
                  nr |-> 0, ne |-> 0, ni |-> 0]
    /\ opsLeft = 0
    /\ lastOp = [op |-> "none"]
    /\ inserted = <<>>
    /\ runsLeft = 0
    /\ firstRun = [ran |-> FALSE]
    /\ driver = NoDriver

\* StringPool::addString
addString(s) ==
    /\ pool' = AddStringPool(pool, stringsLength, s)
    /\ stringsLength' = AddStringLength(pool, stringsLength, s)
    /\ lastOp' = [op |-> "addString", string |-> s,
                  known |-> s \in DOMAIN pool,
                  ret |-> AddStringIndex(pool, stringsLength, s)]
    /\ UNCHANGED <<imageVars, headerVars, cmds, trackingData, offset,
                   symbolsCount, newSymbolEntriesStart, redactedSymbolsCount,
                   newSymbolIndicies, hasRedactedIndirect, newSyms,
                   newIndirect, origin, opsLeft, inserted>>

\* StringPool::StringPool: addString("\x00"), the C string of length 0.
StringPoolCtor ==
    /\ pc = "StringPool"
    /\ addString("")
    /\ pc' = "addString"

AddAnyString ==
    /\ pc = "addString"
    /\ \E s \in PoolStrings : addString(s)
    /\ pc' = pc

PoolNext ==
    \/ StringPoolCtor
    \/ AddAnyString

PoolSpec == PoolInit /\ [][PoolNext]_vars

(***************************************************************************)
(* LinkeditOptimizer::copyExportInfo, the pass optimizeLinkedit leaves out, *)
(* run where the pass order puts it: after the lazy-bind pass.              *)
(***************************************************************************)
\* The low 32 bits of the address the cache file is mapped at (file of the
\* constructor); with the offsets of the model the sums stay below 2^32.
FileAddresses == {0, 65536}

\* (uint32_t)(_linkeditStart + off), _linkeditStart = file + offset.
LinkeditStartPlus(file, off) == file + linkeditOffset + off

copyExportInfo ==
    /\ pc = "startSymbolEntries"
    /\ \E file \in FileAddresses :
         LET i == IF ExportTrieCmd # 0 THEN ExportTrieCmd ELSE DyldInfo
             offField == IF ExportTrieCmd # 0 THEN "dataoff" ELSE "export_off"
             sizeField == IF ExportTrieCmd # 0 THEN "datasize"
                          ELSE "export_size"
         IN  IF i = 0 \/ cmds[i].f[sizeField] = 0
             THEN /\ lastOp' = [op |-> "copyExportInfo", copied |-> FALSE]
                  /\ UNCHANGED <<cmds, trackingData, offset>>
             ELSE LET dataSize == AlignR(cmds[i].f[sizeField])
                  IN /\ trackingData' =
                            TrackData(trackingData,
                                      LinkeditData(FieldAddr(cmds, i, offField),
                                                   offset, dataSize))
                     /\ cmds' = [cmds EXCEPT ![i].f[offField] =
                                      LinkeditStartPlus(file, offset)]
                     /\ offset' = offset + dataSize
                     /\ lastOp' = [op |-> "copyExportInfo", copied |-> TRUE,
                                   cmd |-> i, field |-> offField,
                                   cursor |-> offset,
                                   size |-> cmds[i].f[sizeField]]
    /\ pc' = "exportInfoCopied"
    /\ UNCHANGED <<imageVars, headerVars, symStateVars, opsLeft, inserted>>

ExportNext ==
    \/ copyBindingInfo
    \/ copyWeakBindingInfo
    \/ copyLazyBindingInfo
    \/ copyExportInfo

ExportSpec == Init /\ [][ExportNext]_vars

(***************************************************************************)
(* The driver: main, runAllImages and runImage over the images of a cache.  *)
(***************************************************************************)
\* An image of the cache: whether it has a __TEXT,__text section and a
\* __LINKEDIT segment, and whether validation accepts it.
CacheImages == [hasText : BOOLEAN, hasLinkedit : BOOLEAN, valid : BOOLEAN]

ProgramArguments ==
    [onlyValidate : BOOLEAN, optimizeLinkeditDisabled : BOOLEAN,
     disableOutput : BOOLEAN]

\* LinkeditTracker::LinkeditTracker throws invalid_argument.
TrackerThrows(image) == ~image.hasText \/ ~image.hasLinkedit

DriverInit ==
    /\ width = 64
    /\ linkeditOffset = 0
    /\ headerSpace = 0
    /\ linkeditEnd = 0
    /\ oldSyms = <<>>
    /\ oldStrings = <<>>
    /\ oldIndirect = <<>>
    /\ symbolsCache = [present |-> FALSE]
    /\ ncmds = 0
    /\ sizeofcmds = 0
    /\ cmds = <<>>
    /\ trackingData = <<>>
    /\ pc = "main"
    /\ offset = 0
    /\ pool = <<>>
    /\ stringsLength = 0
    /\ symbolsCount = 0
    /\ newSymbolEntriesStart = 0
    /\ redactedSymbolsCount = 0
    /\ newSymbolIndicies = <<>>
    /\ hasRedactedIndirect = FALSE
    /\ newSyms = <<>>
    /\ newIndirect = <<>>
    /\ origin = <<>>
    /\ initial = [ncmds |-> 0, sizeofcmds |-> 0, vmsize |-> 0, nl |-> 0,
                  nr |-> 0, ne |-> 0, ni |-> 0]
    /\ opsLeft = 0
    /\ lastOp = [op |-> "none"]
    /\ inserted = <<>>
    /\ runsLeft = 0
    /\ firstRun = [ran |-> FALSE]
    /\ \E images \in [1..NumberOfImages -> CacheImages],
          args \in ProgramArguments :
           driver = [status |-> "running", images |-> images, args |-> args,
                     imagesProcessed |-> 0, rejected |-> {}, thrown |-> {},
                     optimized |-> {}, written |-> {}]

\* One turn of the loop of runAllImages: runImage on the next image.  An
\* exception that leaves runImage is caught by main alone, which returns 1.
runImage ==
    /\ pc = "main"
    /\ driver.status = "running"
    /\ driver.imagesProcessed < NumberOfImages
    /\ LET i == driver.imagesProcessed + 1
           image == driver.images[i]
           args == driver.args
           counted == [driver EXCEPT !.imagesProcessed = i]
       IN  \E good \in BOOLEAN :
             driver' =
               IF ~image.valid
               THEN [counted EXCEPT !.rejected = @ \cup {i}]
               ELSE IF args.onlyValidate
               THEN counted
               ELSE IF ~args.optimizeLinkeditDisabled /\ TrackerThrows(image)
               THEN [counted EXCEPT !.thrown = @ \cup {i},
                                    !.status = "returned 1"]
               ELSE LET converted ==
                          IF args.optimizeLinkeditDisabled
                          THEN counted
                          ELSE [counted EXCEPT !.optimized = @ \cup {i}]
                    IN  IF ~args.disableOutput /\ good
                        THEN [converted EXCEPT !.written = @ \cup {i}]
                        ELSE converted
    /\ UNCHANGED <<width, linkeditOffset, headerSpace, linkeditEnd, oldSyms,
                   oldStrings, oldIndirect, symbolsCache, initial, runsLeft,
                   firstRun, headerVars, cmds, trackingData, pc, offset,
                   poolVars, symbolsCount, newSymbolEntriesStart,
                   redactedSymbolsCount, newSymbolIndicies,
                   hasRedactedIndirect, newSyms, newIndirect, origin,
                   trackerOpVars>>

\* The loop of runAllImages has gone over every image: main returns 0.
runAllImagesDone ==
    /\ pc = "main"
    /\ driver.status = "running"
    /\ driver.imagesProcessed = NumberOfImages
    /\ driver' = [driver EXCEPT !.status = "returned 0"]
    /\ UNCHANGED <<width, linkeditOffset, headerSpace, linkeditEnd, oldSyms,
                   oldStrings, oldIndirect, symbolsCache, initial, runsLeft,
                   firstRun, headerVars, cmds, trackingData, pc, offset,
                   poolVars, symbolsCount, newSymbolEntriesStart,
                   redactedSymbolsCount, newSymbolIndicies,
                   hasRedactedIndirect, newSyms, newIndirect, origin,
                   trackerOpVars>>

DriverNext ==
    \/ runImage
    \/ runAllImagesDone

DriverSpec == DriverInit /\ [][DriverNext]_vars

(***************************************************************************)
(* Properties                                                              *)
(***************************************************************************)
Special == {INDIRECT_SYMBOL_ABS, INDIRECT_SYMBOL_LOCAL, 0}

\* The passes up to and including the named one have run.
AfterSearch ==
    pc \in {"copyLocalSymbols", "copyExportedSymbols", "copyImportedSymbols",
            "endSymbolEntries", "copyFunctionStarts", "copyDataInCode",
            "copyIndirectSymbolTable", "copyStringPool", "updateLoadCommands",
            "done"}
AfterSymbolEntries ==
    pc \in {"copyFunctionStarts", "copyDataInCode", "copyIndirectSymbolTable",
            "copyStringPool", "updateLoadCommands", "done"}
AfterIndirect == pc \in {"copyStringPool", "updateLoadCommands", "done"}

\* New entry v names the copy of the symbol old index e named.
NamesCopyOf(v, e) ==
    /\ v < cmds[SymTab].f.nsyms
    /\ v + 1 \in DOMAIN origin
    /\ origin[v + 1].old = e
    /\ origin[v + 1].class \in {"local", "exported", "imported"}
    /\ newSyms[v + 1] =
           [oldSyms[e + 1] EXCEPT
               !.n_strx = pool[oldStrings[oldSyms[e + 1].n_strx]]]

\* C1: after the indirect-symbol-table pass, every position whose original
\* entry is INDIRECT_SYMBOL_ABS, INDIRECT_SYMBOL_LOCAL or 0 holds that same
\* entry in the new indirect table.
C1_SpecialEntriesPreserved ==
    AfterIndirect =>
        \A i \in DOMAIN oldIndirect :
            oldIndirect[i] \in Special => newIndirect[i] = oldIndirect[i]

\* C2: every original entry that is not ABS, LOCAL or 0 is
\* replaced by the new index of the copy of the symbol it named, an index
\* below the new nsyms, in whichever old range (local, exported, imported)
\* the entry falls.
C2_RemappedInAnyRange ==
    AfterIndirect =>
        \A i \in DOMAIN oldIndirect :
            oldIndirect[i] \notin Special =>
                NamesCopyOf(newIndirect[i], oldIndirect[i])

\* C3: in every reachable state, the uint32 at the offset field of every
\* tracked region equals linkedit_file_offset + (data_ptr - linkedit_base).
C3_OffsetCoherence ==
    \A i \in DOMAIN trackingData :
        ReadU32(cmds, trackingData[i].offset)
            = linkeditOffset + trackingData[i].data

\* C4: every tracked region starts at a multiple of 8 from the LINKEDIT
\* base, for both pointer widths and any symbol counts.
C4_Alignment ==
    \A i \in DOMAIN trackingData : trackingData[i].data % 8 = 0

\* C5: the tracked regions do not overlap: of any two, one ends (padded
\* size included) at or before the start of the other.
C5_MonotoneLayout ==
    \A i, j \in DOMAIN trackingData :
        i # j =>
            \/ trackingData[i].data + trackingData[i].dataSize
                   <= trackingData[j].data
            \/ trackingData[j].data + trackingData[j].dataSize
                   <= trackingData[i].data

HasZeroIndirect == \E i \in DOMAIN oldIndirect : oldIndirect[i] = 0
Placeholders == {k \in DOMAIN origin : origin[k].class = "placeholder"}
Copied(class) == Cardinality({k \in DOMAIN origin : origin[k].class = class})

\* C6: in a run that starts with has_redacted_indirect unset (the first
\* call on an extraction context): if an original indirect entry is 0,
\* exactly one placeholder nlist exists, at new index 0, with n_strx the pool
\* offset of "<redacted>", n_type 1 and every other field 0, and
\* has_redacted_indirect is set; if none is 0, no placeholder exists and the
\* flag is not set.
C6_SentinelPlaceholder ==
    (AfterSearch /\ ~firstRun.ran) =>
        IF HasZeroIndirect
        THEN /\ Placeholders = {1}
             /\ Redacted \in DOMAIN pool
             /\ newSyms[1] = [n_strx |-> pool[Redacted], n_type |-> 1,
                              n_sect |-> 0, n_desc |-> 0, n_value |-> 0]
             /\ hasRedactedIndirect
        ELSE /\ Placeholders = {}
             /\ ~hasRedactedIndirect

C6_Witness ==
    /\ pc = "done"
    /\ HasZeroIndirect
    /\ Len(newSyms) >= 3
    /\ hasRedactedIndirect

\* C7: after the symbol-entries close, symtab.nsyms is the number of public
\* locals, recovered locals, exported and imported symbols copied, plus 1
\* if the placeholder was emitted; the reserved tail slots are not counted.
C7_NsymsIsSum ==
    (AfterSymbolEntries /\ SymTab # 0) =>
        cmds[SymTab].f.nsyms =
            Copied("local") + Copied("redacted") + Copied("exported")
            + Copied("imported") + (IF Placeholders # {} THEN 1 ELSE 0)

C7_Witness ==
    /\ pc = "done"
    /\ Copied("local") > 0
    /\ Copied("redacted") > 0
    /\ Copied("exported") > 0
    /\ Copied("imported") > 0
    /\ Placeholders # {}
    /\ redactedSymbolsCount > 0
    /\ cmds[SymTab].f.nsyms = 5

\* C8: when reconstruction completes, the __LINKEDIT segment command has
\* vmsize = filesize = the final value of the cursor.
C8_SegmentBookkeeping ==
    pc = "done" =>
        /\ cmds[LinkeditSeg].f.vmsize = offset
        /\ cmds[LinkeditSeg].f.filesize = offset

C8_Witness ==
    /\ pc = "done"
    /\ offset > 0
    /\ cmds[LinkeditSeg].f.vmsize < initial.vmsize

\* A step that is a call of insertLoadCommand.
InsertLoadCommandStep ==
    opsLeft' = opsLeft - 1 /\ lastOp'.op = "insertLoadCommand"

\* C9: insertLoadCommand returns false exactly when sizeofcmds + cmdsize
\* exceeds the header space, and then ncmds, sizeofcmds, the load commands
\* and every tracked offset-field pointer are unchanged.
C9_InsertLoadCommandFails ==
    [][InsertLoadCommandStep =>
          /\ lastOp'.ret = FALSE
                <=> (sizeofcmds + lastOp'.shiftDelta > headerSpace)
          /\ lastOp'.ret = FALSE =>
                /\ ncmds' = ncmds
                /\ sizeofcmds' = sizeofcmds
                /\ cmds' = cmds
                /\ trackingData' = trackingData]_vars

C9_Witness ==
    /\ lastOp.op = "insertLoadCommand"
    /\ lastOp.ret = FALSE
    /\ headerSpace - sizeofcmds = 8
    /\ lastOp.shiftDelta = 16
    /\ Len(trackingData) > 0

RECURSIVE SeqSum(_)
SeqSum(q) == IF q = <<>> THEN 0 ELSE Head(q) + SeqSum(Tail(q))

\* C10: sizeofcmds is its initial value plus the cmdsize of every
\* successful insertion, ncmds its initial value plus their number,
\* sizeofcmds stays within the header space, and a successful insertion
\* advances by cmdsize exactly the tracked offset-field pointers at or
\* beyond the insertion point.
C10_InsertLoadCommandAccounting ==
    /\ [](/\ sizeofcmds = initial.sizeofcmds + SeqSum(inserted)
          /\ ncmds = initial.ncmds + Len(inserted)
          /\ sizeofcmds <= headerSpace
          /\ sizeofcmds = SumSizes(cmds, Len(cmds)))
    /\ [][(InsertLoadCommandStep /\ lastOp'.ret = TRUE) =>
            /\ inserted' = Append(inserted, lastOp'.shiftDelta)
            /\ Len(trackingData') = Len(trackingData)
            /\ \A i \in DOMAIN trackingData :
                  /\ trackingData'[i].offset =
                        IF trackingData[i].offset >= lastOp'.shiftStart
                        THEN trackingData[i].offset + lastOp'.shiftDelta
                        ELSE trackingData[i].offset
                  /\ trackingData'[i].data = trackingData[i].data
                  /\ trackingData'[i].dataSize = trackingData[i].dataSize
                  /\ ReadU32(cmds', trackingData'[i].offset)
                        = ReadU32(cmds, trackingData[i].offset)]_vars

C10_Witness ==
    /\ lastOp.op = "insertLoadCommand"
    /\ lastOp.ret = TRUE
    /\ Len(inserted) = 2
    /\ \E i \in DOMAIN trackingData :
          trackingData[i].offset >= lastOp.shiftStart + lastOp.shiftDelta
    /\ \E i \in DOMAIN trackingData :
          trackingData[i].offset < lastOp.shiftStart

\* C11: a successful insertLinkeditData reserves the payload size rounded up
\* to the next multiple of 8 (the size itself when it is a multiple of 8)
\* and tracks the new region with that size, so that the regions behind it
\* start exactly that many bytes later.
C11_ShiftIsRoundedPayload ==
    (lastOp.op = "insertLinkeditData" /\ lastOp.ret = TRUE) =>
        /\ lastOp.shiftDelta = AlignR(lastOp.dataSize)
        /\ \E i \in DOMAIN trackingData :
              /\ trackingData[i].data = lastOp.shiftStart
              /\ trackingData[i].dataSize = AlignR(lastOp.dataSize)

\* C12: after reconstruction and any insertLinkeditData calls, the last
\* tracked region ends at or before the vmsize of the __LINKEDIT segment
\* command.
C12_LastRegionWithinSegment ==
    pc = "done" =>
        LastDataEnd(trackingData) <= cmds[LinkeditSeg].f.vmsize

\* C13: the registry is sorted by data pointer, non-decreasing, after every
\* trackData, insertLoadCommand and insertLinkeditData, failed or not, for
\* any region the insertion names.
C13_RegistrySorted ==
    \A i \in 1..(Len(trackingData) - 1) :
        trackingData[i].data <= trackingData[i + 1].data

C13_Witness ==
    /\ lastOp.op = "insertLinkeditData"
    /\ lastOp.ret = TRUE
    /\ Len(trackingData) >= 4
    /\ \E i \in 2..(Len(trackingData) - 1) :
          /\ trackingData[i].data = lastOp.shiftStart
          /\ trackingData[i].dataSize = lastOp.shiftDelta
          /\ trackingData[i - 1].data < trackingData[i].data
          /\ trackingData[i].data < trackingData[i + 1].data

RECURSIVE SumLengths(_)
\* The bytes the strings of S take, each with its terminating NUL.
SumLengths(S) ==
    IF S = {} THEN 0
    ELSE LET s == CHOOSE x \in S : TRUE
         IN Len(s) + 1 + SumLengths(S \ {s})

\* The bytes offset .. offset + length of a pooled string, NUL included.
PoolBytes(p, s) == p[s]..(p[s] + Len(s))

\* C14: on a fresh pool the empty string is at offset 0; addString of a
\* string added before returns the offset it got then and does not grow
\* the pool; the first addString of a string returns the sum of length + 1
\* over the distinct strings added before it; distinct strings never share
\* or overlap offsets.
C14_StringPoolAdd ==
    /\ [](pc = "addString" =>
            /\ "" \in DOMAIN pool
            /\ pool[""] = 0
            /\ stringsLength = SumLengths(DOMAIN pool)
            /\ \A s, t \in DOMAIN pool :
                  s # t => PoolBytes(pool, s) \cap PoolBytes(pool, t) = {})
    /\ [][(pc = "addString" /\ lastOp'.op = "addString") =>
            LET s == lastOp'.string
            IN IF s \in DOMAIN pool
               THEN /\ lastOp'.ret = pool[s]
                    /\ pool' = pool
                    /\ stringsLength' = stringsLength
               ELSE /\ lastOp'.ret = SumLengths(DOMAIN pool)
                    /\ DOMAIN pool' = DOMAIN pool \cup {s}
                    /\ pool'[s] = lastOp'.ret
                    /\ \A t \in DOMAIN pool : pool'[t] = pool[t]]_vars

C14_Witness ==
    /\ pc = "addString"
    /\ lastOp.op = "addString"
    /\ lastOp.known = TRUE
    /\ lastOp.string = "_a"
    /\ lastOp.ret = pool["_a"]
    /\ lastOp.ret > 1
    /\ Cardinality(DOMAIN pool) = 5

AfterStringPool == pc \in {"updateLoadCommands", "done"}

\* C15: after reconstruction, for every symbol copied into the new symbol
\* table the string read at symtab.stroff + n_strx in the written pool is
\* the symbol's original name; symtab.strsize is the sum of length + 1 over
\* the distinct strings; the string at pool offset 0 is empty; stroff names
\* the region the pool was written to.
C15_StringPoolSound ==
    AfterStringPool =>
        /\ \A k \in DOMAIN newSyms :
              origin[k].class \in {"local", "redacted", "exported",
                                   "imported"} =>
                  /\ newSyms[k].n_strx \in DOMAIN WrittenStrings(pool)
                  /\ WrittenStrings(pool)[newSyms[k].n_strx] = origin[k].name
        /\ \A s, t \in DOMAIN pool :
              s # t => PoolBytes(pool, s) \cap PoolBytes(pool, t) = {}
        /\ cmds[SymTab].f.strsize = SumLengths(DOMAIN pool)
        /\ WrittenStrings(pool)[0] = ""
        /\ \E i \in DOMAIN trackingData :
              /\ trackingData[i].offset = FieldAddr(cmds, SymTab, "stroff")
              /\ cmds[SymTab].f.stroff = linkeditOffset + trackingData[i].data
              /\ trackingData[i].dataSize >= cmds[SymTab].f.strsize

C15_Witness ==
    /\ pc = "done"
    /\ Copied("local") > 0
    /\ Copied("redacted") > 0
    /\ Copied("exported") > 0
    /\ Copied("imported") > 0
    /\ \E j, k \in DOMAIN newSyms :
          /\ j # k
          /\ newSyms[j].n_strx = newSyms[k].n_strx
          /\ origin[j].class = "local"
          /\ origin[k].class = "redacted"

\* The offset field of the image's export info when it is not empty, else 0:
\* the trie command's dataoff if the command is present, else export_off.
ExportInfoField ==
    IF ExportTrieCmd # 0
    THEN IF cmds[ExportTrieCmd].f.datasize # 0
         THEN FieldAddr(cmds, ExportTrieCmd, "dataoff") ELSE 0
    ELSE IF DyldInfo # 0 /\ cmds[DyldInfo].f.export_size # 0
         THEN FieldAddr(cmds, DyldInfo, "export_off") ELSE 0

\* C16: reconstruction runs the export-info pass between the lazy-bind pass
\* and the symbol entries: when the image has non-empty export info, the
\* finished reconstruction tracks a region for it, placed after the
\* lazy-bind region and before the symbol entries.
C16_ExportInfoCopied ==
    (pc = "done" /\ ExportInfoField # 0) =>
        \E i \in DOMAIN trackingData :
            /\ trackingData[i].offset = ExportInfoField
            /\ trackingData[i].data <= newSymbolEntriesStart

\* C17: for an image that lacks any of LC_DYLD_INFO, LC_SYMTAB, LC_DYSYMTAB,
\* LC_FUNCTION_STARTS or LC_DATA_IN_CODE the passes run to completion: no
\* pass reads through the pointer of a command that is absent.
C17_NoMissingCommandRead == pc # "crashed"

AfterLocalSymbols ==
    pc \in {"copyExportedSymbols", "copyImportedSymbols", "endSymbolEntries",
            "copyFunctionStarts", "copyDataInCode", "copyIndirectSymbolTable",
            "copyStringPool", "updateLoadCommands", "done"}

\* C18: after the local-symbols pass, dysymtab.ilocalsym is the new index of
\* the first local (the index right after the placeholder, if any) and
\* dysymtab.nlocalsym is the number of locals copied, public and recovered,
\* also when that number is 0 (ilocalsym is then left free).
C18_LocalRangeUpdated ==
    (AfterLocalSymbols /\ DySymTab # 0) =>
        /\ cmds[DySymTab].f.nlocalsym = Copied("local") + Copied("redacted")
        /\ cmds[DySymTab].f.nlocalsym # 0 =>
              cmds[DySymTab].f.ilocalsym = Cardinality(Placeholders)

\* C19: a second run of the optimizer on the image it has reconstructed,
\* with the same cache and symbols subcache, ends with the same string pool
\* (same strings at the same offsets) and with every field of every load
\* command equal to its value after the first run.
C19_Idempotent ==
    (pc = "done" /\ firstRun.ran) =>
        /\ pool = firstRun.pool
        /\ cmds = firstRun.cmds

\* C20: the scratch buffer of the size of the __LINKEDIT vmsize the run
\* started with is never exceeded: at every step of the passes the cursor,
\* which is the end of everything written or reserved so far, is at most
\* that size.
C20_ScratchBufferBound == offset <= linkeditEnd

\* C21: when the reconstruction of an image fails because the image has no
\* __TEXT,__text section or no __LINKEDIT segment, the image is neither
\* optimized nor written, and the program does not end before every image of
\* the cache has been taken up.
C21_FailedImageSkipped ==
    driver.thrown # {} =>
        /\ driver.thrown \cap driver.optimized = {}
        /\ driver.thrown \cap driver.written = {}
        /\ driver.status # "running" =>
               driver.imagesProcessed = NumberOfImages

\* C22: when the export-info pass has copied non-empty export data at cursor
\* value c, the owning offset field (the trie command's dataoff if that
\* command is present, else dyld_info.export_off) holds the file offset of
\* __LINKEDIT plus c, a region at c of the size padded to 8 is tracked for
\* that field, and the cursor is c plus the padded size.
C22_ExportInfoOffset ==
    (pc = "exportInfoCopied" /\ lastOp.copied) =>
        /\ cmds[lastOp.cmd].f[lastOp.field] = linkeditOffset + lastOp.cursor
        /\ \E k \in DOMAIN trackingData :
              trackingData[k] =
                  LinkeditData(FieldAddr(cmds, lastOp.cmd, lastOp.field),
                               lastOp.cursor, AlignR(lastOp.size))
        /\ offset = lastOp.cursor + AlignR(lastOp.size)

\* The entries of the new symbol table that were recovered from the
\* subcache, in their order.
RecoveredIndices ==
    SelectSeq([k \in 1..Len(origin) |-> k],
              LAMBDA k : origin[k].class = "redacted")

\* The entries of the subcache's table whose dylibOffset is the image's key:
\* __TEXT vmaddr - sharedRegionStart in the new layout, the file offset of
\* __TEXT in the old one.
KeyMatches ==
    {i \in DOMAIN symbolsCache.entries :
        symbolsCache.entries[i].dylibOffset =
            IF symbolsCache.newLayout THEN ImageKeys.vm ELSE ImageKeys.file}

\* C23: with a symbols subcache present, the recovered locals the local pass
\* has copied are, in order, the nlists nlistStartIndex .. nlistStartIndex +
\* nlistCount - 1 of the first entry of the table whose dylibOffset is the
\* image's key for the cache's layout; if no entry has that key, no
\* recovered local is copied.
C23_RecoveryRange ==
    (AfterLocalSymbols /\ symbolsCache.present) =>
        IF KeyMatches = {}
        THEN Copied("redacted") = 0
        ELSE \E i \in KeyMatches :
                /\ \A j \in KeyMatches : i <= j
                /\ Copied("redacted") = symbolsCache.entries[i].nlistCount
                /\ \A k \in 1..Copied("redacted") :
                      LET from == symbolsCache.nlists[
                                      symbolsCache.entries[i].nlistStartIndex
                                      + k]
                          to == newSyms[RecoveredIndices[k]]
                      IN /\ to.n_value = from.n_value
                         /\ to.n_type = from.n_type
                         /\ origin[RecoveredIndices[k]].name =
                                StringTable(CacheNames)[from.n_strx]

\* Two entries have the image's key and name different ranges, an entry has
\* the key of the other layout, and the first range has been copied.
C23_Witness ==
    /\ pc = "done"
    /\ symbolsCache.present
    /\ Cardinality(KeyMatches) = 2
    /\ symbolsCache.entries[1].nlistCount = 1
    /\ Copied("redacted") = 1

\* No entry has the image's key although one has the key of the other
\* layout: nothing is recovered.
C23_WitnessNoMatch ==
    /\ pc = "done"
    /\ symbolsCache.present
    /\ KeyMatches = {}
    /\ \E i \in DOMAIN symbolsCache.entries :
          symbolsCache.entries[i].dylibOffset \in
              {ImageKeys.vm, ImageKeys.file}
    /\ Copied("redacted") = 0

\* The number of copied symbols of the classes is the range's count.
CountIsCopied(count, classes) ==
    count = Cardinality({k \in DOMAIN origin : origin[k].class \in classes})

\* C24: after reconstruction each of the three dysymtab ranges lies within
\* the new symbol table, every entry of a range is the copy of a symbol of
\* the range's class (so the ranges are disjoint), and the ranges that are
\* not empty come in the order locals, exported, imported; a class with no
\* copied symbol has an empty range.
C24_RangesIndexNewTable ==
    (pc = "done" /\ DySymTab # 0 /\ SymTab # 0) =>
        LET d == cmds[DySymTab].f
            nsyms == cmds[SymTab].f.nsyms
            InClass(first, count, classes) ==
                /\ first + count <= nsyms
                /\ \A k \in first..(first + count - 1) :
                      /\ k + 1 \in DOMAIN origin
                      /\ origin[k + 1].class \in classes
        IN  /\ CountIsCopied(d.nlocalsym, {"local", "redacted"})
            /\ CountIsCopied(d.nextdefsym, {"exported"})
            /\ CountIsCopied(d.nundefsym, {"imported"})
            /\ InClass(d.ilocalsym, d.nlocalsym, {"local", "redacted"})
            /\ InClass(d.iextdefsym, d.nextdefsym, {"exported"})
            /\ InClass(d.iundefsym, d.nundefsym, {"imported"})
            /\ (d.nlocalsym # 0 /\ d.nextdefsym # 0) =>
                   d.ilocalsym + d.nlocalsym <= d.iextdefsym
            /\ (d.nextdefsym # 0 /\ d.nundefsym # 0) =>
                   d.iextdefsym + d.nextdefsym <= d.iundefsym
            /\ (d.nlocalsym # 0 /\ d.nundefsym # 0) =>
                   d.ilocalsym + d.nlocalsym <= d.iundefsym
====
